---- MODULE Spec2Model ----
(***************************************************************************)
(* Flow-duration-curve computation of tethysapp/awra_demo/controllers.py:  *)
(* the function fdc and the handler get_plot_for_layer_feature that calls  *)
(* it three times on the table read from USGS_Site_Data.csv.               *)
(*                                                                         *)
(* Discharges are floating-point in the code; here they are exact          *)
(* rationals [n, d] with d > 0 in lowest terms, extended the IEEE way:     *)
(* [n |-> 1, d |-> 0] is +inf, [n |-> -1, d |-> 0] is -inf and             *)
(* [n |-> 0, d |-> 0] is NaN (a missing cell of the table).                *)
(* Timestamps have hour resolution.                                        *)
(***************************************************************************)
EXTENDS Integers, Sequences, FiniteSets, TLC

VARIABLES csv, table, req, res, plot

vars == <<csv, table, req, res, plot>>

----------------------------------------------------------------------------
(* Bounds of the explored inputs *)

MaxRows == 3

----------------------------------------------------------------------------
(* Numbers *)

Abs(x) == IF x < 0 THEN -x ELSE x

Sign(x) == IF x < 0 THEN -1 ELSE IF x > 0 THEN 1 ELSE 0

RECURSIVE GCD(_, _)
GCD(a, b) == IF b = 0 THEN a ELSE GCD(b, a % b)

Rat(n, d) == [n |-> n, d |-> d]

NaN == Rat(0, 0)

IsNaN(a) == a.n = 0 /\ a.d = 0

\* n/d as a float would hold it: lowest terms, d > 0; x/0 is +-inf, 0/0 NaN
Norm(n, d) ==
    IF d = 0 THEN Rat(Sign(n), 0)
    ELSE LET g == GCD(Abs(n), Abs(d))
         IN  Rat(Sign(d) * (n \div g), Abs(d) \div g)

\* float / number, as numpy float64 true division (no exception on zero)
RDiv(a, k) ==
    IF IsNaN(a) THEN NaN
    ELSE IF a.d = 0 THEN (IF k = 0 THEN Rat(a.n, 0) ELSE Rat(a.n * Sign(k), 0))
    ELSE Norm(a.n, a.d * k)

\* a < b on floats: false whenever a NaN is involved
RLess(a, b) ==
    /\ ~IsNaN(a)
    /\ ~IsNaN(b)
    /\ IF a.d = 0 /\ b.d = 0 THEN a.n < b.n
       ELSE IF a.d = 0 THEN a.n < 0
       ELSE IF b.d = 0 THEN b.n > 0
       ELSE a.n * b.d < b.n * a.d

REq(a, b) == ~IsNaN(a) /\ ~IsNaN(b) /\ ~RLess(a, b) /\ ~RLess(b, a)

----------------------------------------------------------------------------
(* Calendar *)

IsLeap(y) == (y % 4 = 0 /\ y % 100 # 0) \/ y % 400 = 0

DaysInMonth(y, m) ==
    IF m = 2 THEN (IF IsLeap(y) THEN 29 ELSE 28)
    ELSE IF m \in {4, 6, 9, 11} THEN 30 ELSE 31

RECURSIVE DaysBefore(_, _)
DaysBefore(y, m) == IF m = 1 THEN 0 ELSE DaysBefore(y, m - 1) + DaysInMonth(y, m - 1)

\* a cell of the csv's dates column, as text
DateStr(y, m, d, h) == [kind |-> "str", y |-> y, m |-> m, d |-> d, h |-> h]

\* dt.datetime(y, m, d, h) / an element of a DatetimeIndex
Timestamp(y, m, d, h) == [kind |-> "Timestamp", y |-> y, m |-> m, d |-> d, h |-> h]

\* pd.to_datetime on one index entry
ToDatetime(e) == Timestamp(e.y, e.m, e.d, e.h)

\* DatetimeIndex.dayofyear
DayOfYear(t) == DaysBefore(t.y, t.m) + t.d

\* a < b on timestamps
TsLess(a, b) ==
    \/ a.y < b.y
    \/ a.y = b.y /\ a.m < b.m
    \/ a.y = b.y /\ a.m = b.m /\ a.d < b.d
    \/ a.y = b.y /\ a.m = b.m /\ a.d = b.d /\ a.h < b.h

----------------------------------------------------------------------------
(* DataFrames.  A frame is [index, columns, cells]: cells[j][i] is the     *)
(* value of column columns[j] in row i.  Frames live in a heap (a sequence *)
(* of frames); a reference is a position of the heap, so that indexing     *)
(* that copies and assignment that writes in place are told apart.         *)

Range(s) == {s[i] : i \in 1..Len(s)}

\* a function on 1..n as an explicit tuple
Tup(f) == SelectSeq(f, LAMBDA x : TRUE)

Iota(n) == Tup([i \in 1..n |-> i])

Frame(index, columns, cells) == [index |-> index, columns |-> columns, cells |-> cells]

NRows(f) == Len(f.index)

\* the column named c
Col(f, c) == f.cells[CHOOSE j \in 1..Len(f.columns) : f.columns[j] = c]

\* rows of f at the positions pos, as a new frame
TakeRows(f, pos) ==
    Frame(Tup([k \in 1..Len(pos) |-> f.index[pos[k]]]),
          f.columns,
          Tup([j \in 1..Len(f.columns) |->
                Tup([k \in 1..Len(pos) |-> f.cells[j][pos[k]]])]))

\* pd.read_csv(data_path, index_col='dates')
ReadCsv(rows) ==
    Frame(Tup([i \in 1..Len(rows) |-> rows[i].dates]),
          <<"SITE1", "SITE2">>,
          <<Tup([i \in 1..Len(rows) |-> rows[i].SITE1]),
            Tup([i \in 1..Len(rows) |-> rows[i].SITE2])>>)

\* df itself instead of df[[site]]: no copy is made, later writes hit the caller
SelectSiteView(heap, ref, site) ==
    [raised |-> site \notin Range(heap[ref].columns), heap |-> heap, ref |-> ref]

\* df.reindex(columns=[site]) instead of df[[site]]: an absent column comes
\* back filled with missing values and nothing is raised
SelectSiteReindex(heap, ref, site) ==
    LET f == heap[ref]
    IN  [raised |-> FALSE,
         heap |-> Append(heap, Frame(f.index, <<site>>,
                    <<IF site \in Range(f.columns) THEN Col(f, site)
                      ELSE Tup([i \in 1..NRows(f) |-> NaN])>>)),
         ref |-> Len(heap) + 1]

\* df[[site]]: a new frame holding the one column; KeyError if it is absent
SelectSite(heap, ref, site) ==
    LET f == heap[ref]
    IN  IF site \notin Range(f.columns)
        THEN [raised |-> TRUE, heap |-> heap, ref |-> ref]
        ELSE [raised |-> FALSE,
              heap |-> Append(heap, Frame(f.index, <<site>>, <<Col(f, site)>>)),
              ref |-> Len(heap) + 1]

\* pd.to_datetime(df.index)
ToDatetimeIndex(index) == Tup([i \in 1..Len(index) |-> ToDatetime(index[i])])

\* df.index = dt_index: writes the frame that ref names
SetIndex(heap, ref, index) == [heap EXCEPT ![ref].index = index]

\* | instead of & between the two comparisons
DateMaskOr(dt_index, begyear, endyear) ==
    Tup([i \in 1..Len(dt_index) |->
            \/ TsLess(Timestamp(begyear, 1, 1, 0), dt_index[i])
            \/ TsLess(dt_index[i], Timestamp(endyear, 1, 1, 0))])

\* >= instead of > at the lower bound
DateMaskInclusiveBegin(dt_index, begyear, endyear) ==
    Tup([i \in 1..Len(dt_index) |->
            /\ ~TsLess(dt_index[i], Timestamp(begyear, 1, 1, 0))
            /\ TsLess(dt_index[i], Timestamp(endyear, 1, 1, 0))])

\* (dt_index > dt.datetime(begyear, 1, 1)) & (dt_index < dt.datetime(endyear, 1, 1))
DateMask(dt_index, begyear, endyear) ==
    Tup([i \in 1..Len(dt_index) |->
            /\ TsLess(Timestamp(begyear, 1, 1, 0), dt_index[i])
            /\ TsLess(dt_index[i], Timestamp(endyear, 1, 1, 0))])

\* df[mask]: a new frame of the rows where the mask is true
BoolIndex(heap, ref, mask) ==
    LET f == heap[ref]
        pos == SelectSeq(Iota(NRows(f)), LAMBDA i : mask[i])
    IN  [heap |-> Append(heap, TakeRows(f, pos)), ref |-> Len(heap) + 1]

\* data.dropna(): a new frame without the rows that hold a missing value
DropNa(heap, ref) ==
    LET f == heap[ref]
        pos == SelectSeq(Iota(NRows(f)),
                         LAMBDA i : \A j \in 1..Len(f.columns) : ~IsNaN(f.cells[j][i]))
    IN  [heap |-> Append(heap, TakeRows(f, pos)), ref |-> Len(heap) + 1]

\* data['doy'] = data.index.dayofyear: adds a column to the frame ref names
SetDoyColumn(heap, ref) ==
    LET f == heap[ref]
        doy == Tup([i \in 1..NRows(f) |-> Rat(DayOfYear(f.index[i]), 1)])
    IN  [heap EXCEPT ![ref] =
            IF "doy" \in Range(f.columns)
            THEN Frame(f.index, f.columns,
                       Tup([j \in 1..Len(f.columns) |->
                               IF f.columns[j] = "doy" THEN doy ELSE f.cells[j]]))
            ELSE Frame(f.index, Append(f.columns, "doy"), Append(f.cells, doy))]

\* a + b on finite values
RAdd(a, b) == Norm(a.n * b.d + b.n * a.d, a.d * b.d)

RECURSIVE SumAt(_, _)
SumAt(vals, pos) ==
    IF pos = <<>> THEN Rat(0, 1) ELSE RAdd(vals[Head(pos)], SumAt(vals, Tail(pos)))

\* .sum() instead of .mean()
GroupBySum(f, site) ==
    LET n == NRows(f)
        doy == Tup([i \in 1..n |-> Col(f, "doy")[i].n])
        vals == Col(f, site)
        keys == SelectSeq(Iota(366), LAMBDA k : \E i \in 1..n : doy[i] = k)
        rowsOf(k) == SelectSeq(Iota(n), LAMBDA i : doy[i] = k)
    IN  Tup([g \in 1..Len(keys) |-> SumAt(vals, rowsOf(keys[g]))])

\* data[site].groupby(data['doy']).mean(): one mean per day of year present,
\* in ascending order of the day of year
GroupByMean(f, site) ==
    LET n == NRows(f)
        doy == Tup([i \in 1..n |-> Col(f, "doy")[i].n])
        vals == Col(f, site)
        keys == SelectSeq(Iota(366), LAMBDA k : \E i \in 1..n : doy[i] = k)
        rowsOf(k) == SelectSeq(Iota(n), LAMBDA i : doy[i] = k)
    IN  Tup([g \in 1..Len(keys) |->
                LET pos == rowsOf(keys[g])
                IN  RDiv(SumAt(vals, pos), Len(pos))])

----------------------------------------------------------------------------
(* The numeric steps of fdc *)

\* np.sort left out: the means stay in day-of-year order
NpSortNone(v) == v

\* np.sort(dailyavg): ascending; element i goes to the position that counts
\* the smaller elements and the equal elements before it
NpSort(v) ==
    LET n == Len(v)
        place == Tup([i \in 1..n |->
                    1 + Cardinality({j \in 1..n :
                            RLess(v[j], v[i]) \/ (j < i /\ ~RLess(v[i], v[j]))})])
    IN  Tup([k \in 1..n |-> v[CHOOSE i \in 1..n : place[i] = k]])

\* [(data[i])/normalizer for i in range(len(data))]
Normalize(data, normalizer) ==
    Tup([i \in 1..Len(data) |-> RDiv(data[i], normalizer)])

\* sp.rankdata(data, method='average'): tied values get the mean of the
\* ranks they occupy; a NaN anywhere makes every rank NaN
RankData(data) ==
    LET n == Len(data)
    IN  IF \E i \in 1..n : IsNaN(data[i])
        THEN Tup([i \in 1..n |-> NaN])
        ELSE Tup([i \in 1..n |->
                Norm(2 * Cardinality({j \in 1..n : RLess(data[j], data[i])})
                       + Cardinality({j \in 1..n : REq(data[j], data[i])}) + 1, 2)])

\* ranks[::-1]
Reverse(s) == Tup([i \in 1..Len(s) |-> s[Len(s) + 1 - i]])

\* len(data) instead of len(data)+1
ProbabilitiesNoPlusOne(ranks, n) == Tup([i \in 1..n |-> RDiv(ranks[i], n)])

\* [(ranks[i]/(len(data)+1)) for i in range(len(data))]
Probabilities(ranks, n) == Tup([i \in 1..n |-> RDiv(ranks[i], n + 1)])

\* the stages of fdc that ran, in order, when it returns
AllSteps ==
    <<"select", "to_datetime", "filter", "dropna", "groupby", "sort",
      "normalize", "rank", "reverse", "prob">>

\* fdc(df, site, begyear, endyear, normalizer) on the frame df: the outcome,
\* the two returned lists, the caller's frame after the call, and (for
\* reference) the index of the rows the date filter kept and of the rows
\* left after dropna, which feed the curve
fdc(df, site, begyear, endyear, normalizer) ==
    LET s1 == SelectSite(<<df>>, 1, site)
    IN  IF s1.raised
        THEN [outcome |-> "KeyError", prob |-> <<>>, discharge |-> <<>>,
              kept |-> <<>>, used |-> <<>>, steps |-> <<>>, df |-> s1.heap[1]]
        ELSE
        LET dt_index == ToDatetimeIndex(s1.heap[s1.ref].index)
            h2 == SetIndex(s1.heap, s1.ref, dt_index)
            s3 == BoolIndex(h2, s1.ref, DateMask(dt_index, begyear, endyear))
            s4 == DropNa(s3.heap, s3.ref)
            h5 == SetDoyColumn(s4.heap, s4.ref)
            dailyavg == GroupByMean(h5[s4.ref], site)
            data == Normalize(NpSort(dailyavg), normalizer)
            ranks == Reverse(RankData(data))
            prob == Probabilities(ranks, Len(data))
        IN  [outcome |-> "return", prob |-> prob, discharge |-> data,
             kept |-> h5[s3.ref].index, used |-> h5[s4.ref].index,
             steps |-> AllSteps, df |-> h5[1]]

----------------------------------------------------------------------------
(* Inputs *)

Sites == {"SITE1", "SITE2", "NOSUCHSITE"}

BegYears == {1900, 1970, 2020}

EndYears == {1970, 2020}

Normalizers == {-2, 0, 1, 2}

Requests ==
    [site : Sites, begyear : BegYears, endyear : EndYears, normalizer : Normalizers]

\* the dates the explored files draw their rows from, in file order
Stamps ==
    <<DateStr(1968, 12, 31, 0), DateStr(1970, 1, 1, 0), DateStr(1970, 1, 1, 6),
      DateStr(1971, 1, 2, 0)>>

Vals == {NaN, Rat(5, 1), Rat(10, 1)}

CsvRow(date, v1, v2) == [dates |-> date, SITE1 |-> v1, SITE2 |-> v2]

\* files of 1..MaxRows rows in date order, SITE2 reading 5 throughout
Tables ==
    UNION {
        {[i \in 1..n |-> CsvRow(Stamps[pick[i]], vals[i], Rat(5, 1))] :
            pick \in {p \in [1..n -> 1..Len(Stamps)] :
                        \A i \in 1..(n - 1) : p[i] < p[i + 1]},
            vals \in [1..n -> Vals]} :
        n \in 1..MaxRows}

\* one row per day of 1969, 1970 and 1971: SITE1 reads 10 on day-of-year 1
\* and 5 on every other day
DailyCsv ==
    LET slots == SelectSeq(Iota(3 * 12 * 31),
                    LAMBDA k : ((k - 1) % 31) + 1
                                 <= DaysInMonth(1969 + ((k - 1) \div 372),
                                                (((k - 1) % 372) \div 31) + 1))
    IN  Tup([r \in 1..Len(slots) |->
            LET k == slots[r]
                y == 1969 + ((k - 1) \div 372)
                m == (((k - 1) % 372) \div 31) + 1
                d == ((k - 1) % 31) + 1
            IN  CsvRow(DateStr(y, m, d, 0),
                       IF m = 1 /\ d = 1 THEN Rat(10, 1) ELSE Rat(5, 1),
                       Rat(5, 1))])

----------------------------------------------------------------------------
(* State machine *)

NoRes ==
    [called |-> FALSE, outcome |-> "none", prob |-> <<>>, discharge |-> <<>>,
     kept |-> <<>>, used |-> <<>>, steps |-> <<>>]

NoPlot ==
    [called |-> FALSE, outcome |-> "none", feature_id |-> "", title |-> "",
     data |-> <<>>, used |-> <<>>]

Init ==
    /\ csv \in Tables
    /\ table = ReadCsv(csv)
    /\ req \in Requests
    /\ res = NoRes
    /\ plot = NoPlot

\* a direct call fdc(table, site, begyear, endyear, normalizer)
Fdc ==
    LET r == fdc(table, req.site, req.begyear, req.endyear, req.normalizer)
    IN  /\ res' = [called |-> TRUE, outcome |-> r.outcome, prob |-> r.prob,
                   discharge |-> r.discharge, kept |-> r.kept, used |-> r.used,
                   steps |-> r.steps]
        /\ table' = r.df
        /\ UNCHANGED <<csv, req, plot>>

Series(r, name) == [x |-> r.prob, y |-> r.discharge, name |-> name]

\* get_plot_for_layer_feature for the requested feature: reads the file and
\* calls fdc three times on the frame it read; a KeyError of the first call
\* ends the handler
GetPlot ==
    LET feature_id == req.site
        USGS_Site_Data == ReadCsv(csv)
        r1 == fdc(USGS_Site_Data, feature_id, 1900, 2020, 1)
        r2 == fdc(r1.df, feature_id, 1900, 1970, 1)
        r3 == fdc(r2.df, feature_id, 1970, 2020, 1)
    IN  /\ IF r1.outcome = "KeyError"
           THEN /\ plot' = [called |-> TRUE, outcome |-> "KeyError",
                            feature_id |-> feature_id, title |-> "",
                            data |-> <<>>, used |-> <<>>]
                /\ table' = r1.df
           ELSE /\ plot' = [called |-> TRUE, outcome |-> "return",
                            feature_id |-> feature_id,
                            title |-> "Flow Duration Curve for " \o feature_id,
                            data |-> <<Series(r1, feature_id \o " 1900-2020"),
                                       Series(r2, feature_id \o " 1900-1970"),
                                       Series(r3, feature_id \o " 1970-2020")>>,
                            used |-> <<r1.used, r2.used, r3.used>>]
                /\ table' = r3.df
        /\ UNCHANGED <<csv, req, res>>

Next ==
    \/ Fdc
    \/ GetPlot

Spec == Init /\ [][Next]_vars

InitDaily ==
    /\ csv = DailyCsv
    /\ table = ReadCsv(csv)
    /\ req \in Requests
    /\ res = NoRes
    /\ plot = NoPlot

SpecDaily == InitDaily /\ [][Fdc]_vars

----------------------------------------------------------------------------
(* Vocabulary of the properties *)

Returned(r) == r.called /\ r.outcome = "return"

SiteKnown == req.site \in {"SITE1", "SITE2"}

\* the index of the file as timestamps, in file order
FileStamps == Tup([i \in 1..Len(csv) |-> ToDatetime(csv[i].dates)])

\* the calendar date of t lies strictly between January 1 of b and of e
DateStrictlyBetween(t, b, e) ==
    /\ t.y > b \/ (t.y = b /\ (t.m > 1 \/ t.d > 1))
    /\ t.y < e

\* the instant t lies strictly between midnight of January 1 of b and of e
InstantStrictlyBetween(t, b, e) ==
    /\ t.y > b \/ (t.y = b /\ (t.m > 1 \/ t.d > 1 \/ t.h > 0))
    /\ t.y < e

NonDecreasing(d) == \A i \in 1..(Len(d) - 1) : ~RLess(d[i + 1], d[i])

NonIncreasing(d) == \A i \in 1..(Len(d) - 1) : ~RLess(d[i], d[i + 1])

\* twice the ascending average rank of d[i] among d
AscRank2(d, i) ==
    2 * Cardinality({j \in 1..Len(d) : RLess(d[j], d[i])})
      + Cardinality({j \in 1..Len(d) : REq(d[j], d[i])}) + 1

\* rank of d[i] counted from the top, over N + 1
TopRankProbability(d, i) == Norm(2 * (Len(d) + 1) - AscRank2(d, i), 2 * (Len(d) + 1))

\* row i of the file lies inside the requested window, instant for instant,
\* and holds a value for the requested site
Survives(i) ==
    /\ InstantStrictlyBetween(FileStamps[i], req.begyear, req.endyear)
    /\ ~IsNaN(csv[i][req.site])

InUnit(p) == RLess(Rat(0, 1), p) /\ RLess(p, Rat(1, 1))

Midnight1970 == Timestamp(1970, 1, 1, 0)

----------------------------------------------------------------------------
(* Properties *)

\* C1 (as claimed): the date filter keeps exactly the rows whose calendar
\* date lies strictly between January 1 of begyear and January 1 of endyear,
\* whatever the time of day of the row.
C1_DateFilterByCalendarDate ==
    (Returned(res) /\ SiteKnown) =>
        res.kept = SelectSeq(FileStamps,
                       LAMBDA t : DateStrictlyBetween(t, req.begyear, req.endyear))

\* C2 (as claimed): at every position i the probability is the rank of
\* discharge[i] counted from the top, (N + 1) minus its ascending average
\* rank, over N + 1.
C2_ProbabilityIsRankFromTop ==
    Returned(res) =>
        \A i \in 1..Len(res.discharge) :
            res.prob[i] = TopRankProbability(res.discharge, i)

\* C3 (as claimed): for every non-zero normalizer, positive or negative, the
\* returned discharges are in non-decreasing order.
C3_AscendingForAnyNormalizer ==
    (Returned(res) /\ req.normalizer # 0) => NonDecreasing(res.discharge)

\* C3 (amended): the returned discharges are in non-decreasing order for
\* every positive normalizer, and in non-increasing order for every negative
\* one; the three series of the plot handler (normalizer 1) are
\* non-decreasing.
C3_AscendingForPositiveNormalizer ==
    /\ (Returned(res) /\ req.normalizer > 0) => NonDecreasing(res.discharge)
    /\ (Returned(res) /\ req.normalizer < 0) => NonIncreasing(res.discharge)
    /\ Returned(plot) => \A k \in 1..3 : NonDecreasing(plot.data[k].y)

\* C3 witness: a call with a positive normalizer returned two different
\* discharges.
C3_Witness ==
    /\ Returned(res)
    /\ req.normalizer > 0
    /\ Len(res.discharge) >= 2
    /\ RLess(res.discharge[1], res.discharge[Len(res.discharge)])

\* C4 (as claimed): a call with normalizer 0 on a table holding the site,
\* with at least one row retained, ends in InvalidArgument and returns
\* nothing.
C4_ZeroNormalizerRaises ==
    (/\ res.called
     /\ SiteKnown
     /\ req.normalizer = 0
     /\ \E i \in 1..Len(csv) : Survives(i)) =>
        /\ res.outcome = "InvalidArgument"
        /\ res.prob = <<>>
        /\ res.discharge = <<>>

\* C5 (as claimed): on the daily table of 1969-1971, fdc(table, "SITE1",
\* 1900, 2020) returns discharges [5, 10] and probabilities [2/3, 1/3].
C5_TwoAggregatedPoints ==
    (res.called /\ req = [site |-> "SITE1", begyear |-> 1900, endyear |-> 2020,
                          normalizer |-> 1]) =>
        /\ res.outcome = "return"
        /\ res.discharge = <<Rat(5, 1), Rat(10, 1)>>
        /\ res.prob = <<Rat(2, 3), Rat(1, 3)>>

\* C5 (amended): on the daily table of 1969-1971, fdc(table, "SITE1", 1900,
\* 2020) returns 365 points, one per day of the year, in two sequences of
\* equal length: the discharges are 364 times 5 followed by 10.  Nothing is
\* stated of the probabilities, whose pairing with tied discharges is the
\* subject of C2.
C5_OnePointPerDayOfYear ==
    (res.called /\ req = [site |-> "SITE1", begyear |-> 1900, endyear |-> 2020,
                          normalizer |-> 1]) =>
        /\ res.outcome = "return"
        /\ Len(res.discharge) = 365
        /\ Len(res.prob) = 365
        /\ \A i \in 1..364 : res.discharge[i] = Rat(5, 1)
        /\ res.discharge[365] = Rat(10, 1)

\* C5 witness: the call of the scenario was made on the daily table.
C5_Witness ==
    /\ Len(csv) = 1095
    /\ res.called
    /\ req = [site |-> "SITE1", begyear |-> 1900, endyear |-> 2020, normalizer |-> 1]
    /\ res.discharge # <<>>

\* C6: whatever calls were made, the caller's table is the table as read
\* from the file, and each result is the result of the same call on a fresh
\* copy of that table.
C6_TableUnchanged ==
    /\ table = ReadCsv(csv)
    /\ res.called =>
          LET r == fdc(ReadCsv(csv), req.site, req.begyear, req.endyear, req.normalizer)
          IN  /\ res.outcome = r.outcome
              /\ res.prob = r.prob
              /\ res.discharge = r.discharge
    /\ Returned(plot) =>
          /\ plot.data[1].y = fdc(ReadCsv(csv), req.site, 1900, 2020, 1).discharge
          /\ plot.data[2].y = fdc(ReadCsv(csv), req.site, 1900, 1970, 1).discharge
          /\ plot.data[3].y = fdc(ReadCsv(csv), req.site, 1970, 2020, 1).discharge
          /\ plot.data[1].x = fdc(ReadCsv(csv), req.site, 1900, 2020, 1).prob
          /\ plot.data[2].x = fdc(ReadCsv(csv), req.site, 1900, 1970, 1).prob
          /\ plot.data[3].x = fdc(ReadCsv(csv), req.site, 1970, 2020, 1).prob

\* C6 witness: a direct call and the three calls of the plot handler were
\* made on the same table, and they returned points.
C6_Witness ==
    /\ Returned(res)
    /\ Returned(plot)
    /\ res.discharge # <<>>
    /\ plot.data[2].y # <<>>
    /\ plot.data[3].y # <<>>

\* C7: when the site exists and no row lies inside the window with a value
\* present, fdc returns two empty sequences and raises nothing.
C7_EmptyWindowReturnsEmpty ==
    (/\ res.called
     /\ SiteKnown
     /\ \A i \in 1..Len(csv) : ~Survives(i)) =>
        /\ res.outcome = "return"
        /\ res.prob = <<>>
        /\ res.discharge = <<>>

\* C7 witness: a call whose begyear is not before its endyear, on a table
\* with rows, has returned.
C7_Witness ==
    /\ res.called
    /\ SiteKnown
    /\ req.begyear >= req.endyear
    /\ Len(csv) >= 2
    /\ res.discharge = <<>>

\* C8: with a non-zero normalizer every returned probability lies strictly
\* between 0 and 1; so does every probability of the plot handler's series.
C8_ProbabilityInUnitInterval ==
    /\ (Returned(res) /\ req.normalizer # 0) =>
          \A i \in 1..Len(res.prob) : InUnit(res.prob[i])
    /\ Returned(plot) =>
          \A k \in 1..3 : \A i \in 1..Len(plot.data[k].x) : InUnit(plot.data[k].x[i])

\* C8 witness: a call with a non-zero normalizer returned at least two
\* points, all tied.
C8_Witness ==
    /\ Returned(res)
    /\ req.normalizer # 0
    /\ Len(res.discharge) >= 2
    /\ \A i \in 1..Len(res.discharge) : REq(res.discharge[i], res.discharge[1])

\* C9: a call with a site that is no column of the table ends in KeyError,
\* returns nothing and runs no step of the computation; the plot handler
\* ends in the same KeyError.
C9_MissingSiteRaisesKeyError ==
    /\ (res.called /\ ~SiteKnown) =>
          /\ res.outcome = "KeyError"
          /\ res.prob = <<>>
          /\ res.discharge = <<>>
          /\ res.kept = <<>>
          /\ res.used = <<>>
          /\ res.steps = <<>>
    /\ (plot.called /\ ~SiteKnown) =>
          /\ plot.outcome = "KeyError"
          /\ plot.data = <<>>

\* C9 witness: fdc and the plot handler were both called with the absent
\* site.
C9_Witness == res.called /\ plot.called /\ req.site = "NOSUCHSITE"

\* C10 (as claimed): in the plot handler no row is used by both sub-period
\* calls, and every row used by the (1900, 2020) call is used by exactly one
\* of the (1900, 1970) and (1970, 2020) calls.
C10_SubWindowsPartition ==
    Returned(plot) =>
        /\ Range(plot.used[2]) \cap Range(plot.used[3]) = {}
        /\ \A t \in Range(plot.used[1]) :
              (t \in Range(plot.used[2])) # (t \in Range(plot.used[3]))

\* C10 (amended): no row is used by both sub-period calls; every row used by
\* the (1900, 2020) call is used by exactly one of the two sub-period calls,
\* except a row stamped exactly 1970-01-01 00:00, which is used by neither.
C10_PartitionButMidnight1970 ==
    Returned(plot) =>
        /\ Range(plot.used[2]) \cap Range(plot.used[3]) = {}
        /\ \A t \in Range(plot.used[1]) :
              IF t = Midnight1970
              THEN t \notin Range(plot.used[2]) /\ t \notin Range(plot.used[3])
              ELSE (t \in Range(plot.used[2])) # (t \in Range(plot.used[3]))

\* C10 witness: the handler ran on a table with a row in each sub-period and
\* a row stamped 1970-01-01 00:00.
C10_Witness ==
    /\ Returned(plot)
    /\ Midnight1970 \in Range(plot.used[1])
    /\ plot.used[2] # <<>>
    /\ plot.used[3] # <<>>
====
